---- MODULE Spec2Model ----
(***************************************************************************)
(* State-machine model of the ECS core of src/src/ECS/ECS.h: the per-type  *)
(* component id counter, the Registry (entity signatures, component pools, *)
(* system map, pending add/kill sets) and the System base class.           *)
(*                                                                         *)
(* ECS.h declares but does not define Registry::CreateEntity,              *)
(* Registry::Update, Registry::AddEntityToSystems, Registry::HasComponent, *)
(* the System member functions and IComponent::nextId; their bodies are    *)
(* taken from the written specification (sections 4.4 and 4.5) and are     *)
(* marked as such where they are defined below.                            *)
(***************************************************************************)
EXTENDS Integers, Sequences, FiniteSets

\* ---------------------------------------------------------------- constants

\* const unsigned int MAX_COMPONENTS = 32 (width of Signature).
MAX_COMPONENTS == 32

\* Pool(unsigned int size = 100): slots a freshly made pool holds.
PoolDefaultSize == 100

\* ------------------------------------------------------------------- bounds

\* Calls a behaviour makes on the registry.
MaxSteps == 6

\* Entities a behaviour creates on top of those its initial state holds.
MaxEntities == 3

\* ------------------------------------------------------------------- values

\* The component types the program's calls instantiate the templates with.
Kinds == {1, 2}

\* The system types the program registers.
SysKinds == {1, 2}

\* Constructor arguments of a component; DefaultValue is the component the
\* default constructor makes (the content of a pool slot never written).
Values == {1, 2}

DefaultValue == 0

\* The function-local static of Component<T>::GetId before its first call.
NoId == -1

\* An empty shared_ptr<IPool> (nullptr): a slot of componentPools never filled.
NullPool == [live |-> FALSE, data |-> <<>>]

\* A key the systems map does not hold.
NoSystem == [live |-> FALSE, componentSignature |-> {}, entities |-> <<>>]

\* The history variable before the first Update.
NoFlush ==
  [done |-> FALSE, added |-> {}, killed |-> {}, systems |-> <<>>,
   signatures |-> <<>>]

Range(s) == {s[i] : i \in 1..Len(s)}

\* Kinds a system of kind s declares in its constructor, in call order
\* (System::RequireComponent<T>() once per element).
Requires(s) == IF s = 1 THEN <<1>> ELSE <<2, 1>>

VARIABLES
  nextId,                      \* IComponent::nextId
  otherIds,                    \* ids taken by the process's other components
  compId,                      \* the static id of Component<T>::GetId, per T
  numEntities,                 \* Registry::numEntities
  entitiesToBeAdded,           \* Registry::entitiesToBeAdded (set of ids)
  entitiesToBeKilled,          \* Registry::entitiesToBeKilled (set of ids)
  componentPools,              \* Registry::componentPools; index id + 1
  entityComponentSignatures,   \* Registry::entityComponentSignatures; id + 1
  systems,                     \* Registry::systems: SysKinds -> System
  status,                      \* "running", "thrown" (exception), "crashed"
  steps,                       \* calls made so far
  lastFlush                    \* history: what the latest Update found

vars == <<nextId, otherIds, compId, numEntities, entitiesToBeAdded, entitiesToBeKilled,
          componentPools, entityComponentSignatures, systems, status,
          steps, lastFlush>>

\* ------------------------------------------------- component identity (ids)

\* GetId as it would be without `static`: a new id at every call.
GetIdFresh(st, T) ==
  [next |-> st.next + 1, id |-> [st.id EXCEPT ![T] = st.next]]

\* Component<T>::GetId: `static auto id = nextId++; return id;`.  The pair
\* st = [next, id] is the counter and the per-kind statics; the result is the
\* pair after the call, in which id[T] is the value returned.
GetId(st, T) ==
  IF st.id[T] = NoId
    THEN [next |-> st.next + 1, id |-> [st.id EXCEPT ![T] = st.next]]
    ELSE st

Ids == [next |-> nextId, id |-> compId]

\* ------------------------------------------------------------------ System

\* AddEntityToSystem as a bare push_back on the vector.
AddEntityToSystemAppend(sys, e) == [sys EXCEPT !.entities = Append(@, e)]

\* System::AddEntityToSystem (specification 4.4: insert, idempotent).
AddEntityToSystem(sys, e) ==
  IF e \in Range(sys.entities)
    THEN sys
    ELSE [sys EXCEPT !.entities = Append(@, e)]

\* System::RemoveEntityFromSystem (specification 4.4: erase, idempotent).
RemoveEntityFromSystem(sys, e) ==
  [sys EXCEPT !.entities = SelectSeq(@, LAMBDA x : x # e)]

\* System::GetSystemEntities: the vector, by value.
GetSystemEntities(sys) == sys.entities

\* System::GetComponentSignature.
GetComponentSignature(sys) == sys.componentSignature

\* -------------------------------------------------------------------- Pool

\* Pool(unsigned int size = 100) { data.resize(size); }
PoolNew ==
  [live |-> TRUE, data |-> [i \in 1..PoolDefaultSize |-> DefaultValue]]

\* Pool::GetSize
PoolGetSize(pool) == Len(pool.data)

\* Pool::Resize as it would be if it made a vector of n fresh slots.
PoolResizeCleared(pool, n) ==
  [pool EXCEPT !.data = [i \in 1..n |-> DefaultValue]]

\* Pool::Resize as it would be if it left the vector as it is.
PoolResizeKept(pool, n) == pool

\* Pool::Resize: std::vector::resize(n) keeps the first n elements and
\* value-initialises the slots it adds.
PoolResize(pool, n) ==
  [pool EXCEPT !.data =
     [i \in 1..n |-> IF i <= Len(pool.data) THEN pool.data[i]
                                             ELSE DefaultValue]]

\* Pool::Set as it would be if the write were lost.
PoolSetNowhere(pool, index, object) == pool

\* Pool::Set: data[index] = object (index within the vector).
PoolSet(pool, index, object) == [pool EXCEPT !.data[index + 1] = object]

\* Pool::Get: data[index] (index within the vector).
PoolGet(pool, index) == pool.data[index + 1]

\* ---------------------------------------------------------------- Registry

\* Entities the calls of a behaviour range over: those created during the
\* behaviour (the entities an initial state already holds stay untouched).
FirstTracked ==
  IF numEntities >= PoolDefaultSize - 1 THEN PoolDefaultSize - 1 ELSE 0

EntityIds == {e \in 0..(numEntities - 1) : e >= FirstTracked}

\* Registry::HasSystem
HasSystem(s) == systems[s].live

\* Registry::HasComponent (specification 4.5: the bit test).  A kind that has
\* no id yet receives a fresh one from GetId, whose bit no signature holds.
HasComponent(e, T) ==
  compId[T] # NoId /\ compId[T] \in entityComponentSignatures[e + 1]

\* The matching test (signature & required) == required, on bit sets.
Matches(signature, required) == (signature \cap required) = required

\* Registry::AddEntityToSystems (specification 4.5), on a system map.
AddEntityToSystemsIn(sysmap, signatures, e) ==
  [s \in SysKinds |->
     IF ~sysmap[s].live
       THEN sysmap[s]
       ELSE IF Matches(signatures[e + 1],
                       GetComponentSignature(sysmap[s]))
              THEN AddEntityToSystem(sysmap[s], e)
              ELSE sysmap[s]]

\* For every system, RemoveEntityFromSystem(e) (specification 4.5, Update).
RemoveEntityFromSystemsIn(sysmap, e) ==
  [s \in SysKinds |->
     IF ~sysmap[s].live
       THEN sysmap[s]
       ELSE RemoveEntityFromSystem(sysmap[s], e)]

SetMin(S) == CHOOSE x \in S : \A y \in S : x <= y

\* Iteration over a std::set<Entity>: ascending ids.
RECURSIVE FlushAdded(_, _)
FlushAdded(sysmap, S) ==
  IF S = {}
    THEN sysmap
    ELSE FlushAdded(AddEntityToSystemsIn(sysmap, entityComponentSignatures,
                                         SetMin(S)),
                    S \ {SetMin(S)})

RECURSIVE FlushKilled(_, _)
FlushKilled(sysmap, S) ==
  IF S = {}
    THEN sysmap
    ELSE FlushKilled(RemoveEntityFromSystemsIn(sysmap, SetMin(S)),
                     S \ {SetMin(S)})

\* One more call made by the program, within the bound on calls.
Counted == steps < MaxSteps /\ steps' = steps + 1 /\ UNCHANGED otherIds

\* A call other than Update: the record of the latest Update stays.
Called == Counted /\ UNCHANGED lastFlush

\* CreateEntity as it would be if it handed out again the id of an entity
\* the latest Update has killed.
CreateEntityRecycling ==
  LET free == lastFlush.killed \ entitiesToBeAdded
      id == IF free # {} THEN SetMin(free) ELSE numEntities
  IN /\ status = "running"
     /\ Called
     /\ numEntities < FirstTracked + MaxEntities
     /\ numEntities' = IF free # {} THEN numEntities ELSE numEntities + 1
     /\ entityComponentSignatures' =
          IF id >= Len(entityComponentSignatures)
            THEN entityComponentSignatures \o
                   [i \in 1..(id + 1 - Len(entityComponentSignatures)) |-> {}]
            ELSE [entityComponentSignatures EXCEPT ![id + 1] = {}]
     /\ entitiesToBeAdded' = entitiesToBeAdded \cup {id}
     /\ UNCHANGED <<nextId, compId, entitiesToBeKilled, componentPools,
                    systems, status>>

\* Registry::CreateEntity (specification 4.5): id = numEntities++, a slot of
\* the signature vector for it, the id queued in entitiesToBeAdded.
CreateEntity ==
  /\ status = "running"
  /\ Called
  /\ numEntities < FirstTracked + MaxEntities
  /\ numEntities' = numEntities + 1
  /\ entityComponentSignatures' =
       IF numEntities >= Len(entityComponentSignatures)
         THEN entityComponentSignatures \o
                [i \in 1..(numEntities + 1 - Len(entityComponentSignatures))
                   |-> {}]
         ELSE entityComponentSignatures
  /\ entitiesToBeAdded' = entitiesToBeAdded \cup {numEntities}
  /\ UNCHANGED <<nextId, compId, entitiesToBeKilled, componentPools, systems,
                 status>>

\* Queuing an entity for removal (specification 3 and 4.5: toKill enqueued).
KillEntity(e) ==
  /\ status = "running"
  /\ Called
  /\ entitiesToBeKilled' = entitiesToBeKilled \cup {e}
  /\ UNCHANGED <<nextId, compId, numEntities, entitiesToBeAdded,
                 componentPools, entityComponentSignatures, systems, status>>

\* Update as it would be if it flushed entitiesToBeKilled first.
UpdateKillFirst ==
  /\ status = "running"
  /\ Counted
  /\ lastFlush' = [done |-> TRUE,
                   added |-> entitiesToBeAdded,
                   killed |-> entitiesToBeKilled,
                   systems |-> systems,
                   signatures |-> entityComponentSignatures]
  /\ systems' = FlushAdded(FlushKilled(systems, entitiesToBeKilled),
                           entitiesToBeAdded)
  /\ entitiesToBeAdded' = {}
  /\ entitiesToBeKilled' = {}
  /\ UNCHANGED <<nextId, compId, numEntities, componentPools,
                 entityComponentSignatures, status>>

\* Update as it would be if it matched every entity again, pending or not.
UpdateRematching ==
  /\ status = "running"
  /\ Counted
  /\ lastFlush' = [done |-> TRUE,
                   added |-> entitiesToBeAdded,
                   killed |-> entitiesToBeKilled,
                   systems |-> systems,
                   signatures |-> entityComponentSignatures]
  /\ systems' = FlushKilled(FlushAdded(systems, EntityIds),
                            entitiesToBeKilled)
  /\ entitiesToBeAdded' = {}
  /\ entitiesToBeKilled' = {}
  /\ UNCHANGED <<nextId, compId, numEntities, componentPools,
                 entityComponentSignatures, status>>

\* Registry::Update (specification 4.5): flush entitiesToBeAdded, then
\* entitiesToBeKilled, and clear both.  lastFlush records the queues, the
\* systems and the signatures the call found.
Update ==
  /\ status = "running"
  /\ Counted
  /\ lastFlush' = [done |-> TRUE,
                   added |-> entitiesToBeAdded,
                   killed |-> entitiesToBeKilled,
                   systems |-> systems,
                   signatures |-> entityComponentSignatures]
  /\ systems' = FlushKilled(FlushAdded(systems, entitiesToBeAdded),
                            entitiesToBeKilled)
  /\ entitiesToBeAdded' = {}
  /\ entitiesToBeKilled' = {}
  /\ UNCHANGED <<nextId, compId, numEntities, componentPools,
                 entityComponentSignatures, status>>

\* Registry::AddEntityToSystems called directly (it is public).
AddEntityToSystems(e) ==
  /\ status = "running"
  /\ Called
  /\ systems' = AddEntityToSystemsIn(systems, entityComponentSignatures, e)
  /\ UNCHANGED <<nextId, compId, numEntities, entitiesToBeAdded,
                 entitiesToBeKilled, componentPools,
                 entityComponentSignatures, status>>

\* bitset::set() in place of set(pos): every bit set.
SignatureSetAll(signature, pos) == 0..(MAX_COMPONENTS - 1)

\* std::bitset::set(pos), the write of AddComponent and RequireComponent.
\* (A position >= MAX_COMPONENTS makes it throw std::out_of_range; the
\* callers below test for that before they use it.)
SignatureSet(signature, pos) == signature \cup {pos}

\* bitset::reset() in place of set(pos, false): every bit cleared.
SignatureResetAll(signature, pos) == {}

\* std::bitset::set(pos, false), the write of RemoveComponent (it throws
\* like set(pos) for a position >= MAX_COMPONENTS).
SignatureClear(signature, pos) == signature \ {pos}

\* componentPools.resize(componentId + 1, nullptr) when the id is beyond it.
PoolsResize(pools, componentId) ==
  IF componentId >= Len(pools)
    THEN pools \o [i \in 1..(componentId + 1 - Len(pools)) |-> NullPool]
    ELSE pools

\* Registry::AddComponent up to the write of the signature bit: what it
\* leaves in componentPools.
AddComponentPools(e, T, v) ==
  LET componentId == GetId(Ids, T).id[T]
      resized == PoolsResize(componentPools, componentId)
      made == IF ~resized[componentId + 1].live
                THEN [resized EXCEPT ![componentId + 1] = PoolNew]
                ELSE resized
      componentPool == made[componentId + 1]
      grown == IF e >= PoolGetSize(componentPool)
                 THEN PoolResize(componentPool, numEntities)
                 ELSE componentPool
  IN [made EXCEPT ![componentId + 1] = PoolSet(grown, e, v)]

\* AddComponent as it would be if it matched the entity into the systems at
\* once instead of leaving that to Update.
AddComponentEager(e, T, v) ==
  LET st == GetId(Ids, T)
      componentId == st.id[T]
  IN
    /\ status = "running"
    /\ Called
    /\ nextId' = st.next
    /\ compId' = st.id
    /\ IF componentId < MAX_COMPONENTS
         THEN /\ entityComponentSignatures' =
                   [entityComponentSignatures EXCEPT
                      ![e + 1] = SignatureSet(@, componentId)]
              /\ status' = "running"
         ELSE /\ status' = "thrown"
              /\ UNCHANGED entityComponentSignatures
    /\ componentPools' = AddComponentPools(e, T, v)
    /\ systems' = AddEntityToSystemsIn(systems, entityComponentSignatures', e)
    /\ UNCHANGED <<numEntities, entitiesToBeAdded, entitiesToBeKilled>>

\* Registry::AddComponent<T>(entity e, args v).  The code writes the pool
\* before the signature bit, so the pool is written also when bitset::set
\* throws for an id >= MAX_COMPONENTS.
AddComponent(e, T, v) ==
  LET st == GetId(Ids, T)
      componentId == st.id[T]
  IN
    /\ status = "running"
    /\ Called
    /\ UNCHANGED <<numEntities, entitiesToBeAdded, entitiesToBeKilled,
                   systems>>
    /\ nextId' = st.next
    /\ compId' = st.id
    /\ IF componentId < MAX_COMPONENTS
         THEN /\ entityComponentSignatures' =
                   [entityComponentSignatures EXCEPT
                      ![e + 1] = SignatureSet(@, componentId)]
              /\ status' = "running"
         ELSE /\ status' = "thrown"
              /\ UNCHANGED entityComponentSignatures
    /\ componentPools' = AddComponentPools(e, T, v)

\* RemoveComponent as it would be if it queued the entity to be matched
\* again by the next Update.
RemoveComponentRequeue(e, T) ==
  LET st == GetId(Ids, T)
      componentId == st.id[T]
  IN /\ status = "running"
     /\ Called
     /\ nextId' = st.next
     /\ compId' = st.id
     /\ IF componentId < MAX_COMPONENTS
          THEN /\ entityComponentSignatures' =
                    [entityComponentSignatures EXCEPT
                       ![e + 1] = SignatureClear(@, componentId)]
               /\ status' = "running"
          ELSE /\ status' = "thrown"
               /\ UNCHANGED entityComponentSignatures
     /\ entitiesToBeAdded' = entitiesToBeAdded \cup {e}
     /\ UNCHANGED <<numEntities, entitiesToBeKilled, componentPools, systems>>

\* Registry::RemoveComponent<T>(entity e).
RemoveComponent(e, T) ==
  LET st == GetId(Ids, T)
      componentId == st.id[T]
  IN /\ status = "running"
     /\ Called
     /\ nextId' = st.next
     /\ compId' = st.id
     /\ IF componentId < MAX_COMPONENTS
          THEN /\ entityComponentSignatures' =
                    [entityComponentSignatures EXCEPT
                       ![e + 1] = SignatureClear(@, componentId)]
               /\ status' = "running"
          ELSE /\ status' = "thrown"
               /\ UNCHANGED entityComponentSignatures
     /\ UNCHANGED <<numEntities, entitiesToBeAdded, entitiesToBeKilled,
                    componentPools, systems>>

\* What a read that is undefined behaviour can do: stop the process (a
\* fault) or hand back whatever the memory read holds.
Undefined == {[kind |-> "crash"], [kind |-> "garbage"]}

\* Registry::GetComponent<T>(entity e): the outcomes of the call.  Neither
\* the signature nor the bounds of componentPools or of the pool are tested.
GetComponentOutcomes(e, T) ==
  LET componentId == GetId(Ids, T).id[T] IN
    IF componentId >= Len(componentPools)
      THEN Undefined
      ELSE IF ~componentPools[componentId + 1].live
             THEN Undefined
             ELSE IF e >= PoolGetSize(componentPools[componentId + 1])
                    THEN Undefined
                    ELSE {[kind |-> "component",
                           value |-> PoolGet(componentPools[componentId + 1],
                                             e)]}

GetComponent(e, T) ==
  /\ status = "running"
  /\ Called
  /\ nextId' = GetId(Ids, T).next
  /\ compId' = GetId(Ids, T).id
  /\ \E out \in GetComponentOutcomes(e, T) :
       status' = IF out.kind = "crash" THEN "crashed" ELSE "running"
  /\ UNCHANGED <<numEntities, entitiesToBeAdded, entitiesToBeKilled,
                 componentPools, entityComponentSignatures, systems>>

\* RequireComponent as it would be if it assigned the signature instead of
\* setting one bit of it.
RequireComponentOnly(c, T) ==
  IF c.thrown
    THEN c
    ELSE LET st == GetId(c.ids, T) IN
           IF st.id[T] >= MAX_COMPONENTS
             THEN [c EXCEPT !.ids = st, !.thrown = TRUE]
             ELSE [c EXCEPT !.ids = st, !.componentSignature = {st.id[T]}]

\* System::RequireComponent<T>() during the construction of a system: c is
\* the id statics, the signature built so far and whether bitset::set threw.
RequireComponent(c, T) ==
  IF c.thrown
    THEN c
    ELSE LET st == GetId(c.ids, T) IN
           IF st.id[T] >= MAX_COMPONENTS
             THEN [c EXCEPT !.ids = st, !.thrown = TRUE]
             ELSE [c EXCEPT !.ids = st,
                            !.componentSignature = SignatureSet(@, st.id[T])]

\* The constructor of a system of kind s: its RequireComponent calls in order.
RECURSIVE Construct(_, _)
Construct(c, kinds) ==
  IF kinds = <<>>
    THEN c
    ELSE Construct(RequireComponent(c, Head(kinds)), Tail(kinds))

\* AddSystem as it would be if it matched the existing entities into the
\* system it registers.
AddSystemPopulated(s) ==
  LET c == Construct([ids |-> Ids, componentSignature |-> {},
                      thrown |-> FALSE], Requires(s))
      registered == [systems EXCEPT
                       ![s] = [live |-> TRUE,
                               componentSignature |-> c.componentSignature,
                               entities |-> <<>>]]
  IN /\ status = "running"
     /\ Called
     /\ nextId' = c.ids.next
     /\ compId' = c.ids.id
     /\ IF c.thrown
          THEN status' = "thrown" /\ UNCHANGED systems
          ELSE /\ status' = "running"
               /\ systems' =
                    IF systems[s].live
                      THEN systems
                      ELSE [registered EXCEPT
                              ![s] = FlushAdded(registered, EntityIds)[s]]
     /\ UNCHANGED <<numEntities, entitiesToBeAdded, entitiesToBeKilled,
                    componentPools, entityComponentSignatures>>

\* AddSystem as it would be with insert_or_assign: the new instance takes
\* the place of the one registered for the kind.
AddSystemReplace(s) ==
  LET c == Construct([ids |-> Ids, componentSignature |-> {},
                      thrown |-> FALSE], Requires(s))
  IN /\ status = "running"
     /\ Called
     /\ nextId' = c.ids.next
     /\ compId' = c.ids.id
     /\ IF c.thrown
          THEN status' = "thrown" /\ UNCHANGED systems
          ELSE /\ status' = "running"
               /\ systems' =
                    [systems EXCEPT
                       ![s] = [live |-> TRUE,
                               componentSignature |-> c.componentSignature,
                               entities |-> <<>>]]
     /\ UNCHANGED <<numEntities, entitiesToBeAdded, entitiesToBeKilled,
                    componentPools, entityComponentSignatures>>

\* Registry::AddSystem<S>(): make_shared<S>() runs the constructor, then
\* unordered_map::insert, which keeps the element a key already has.
AddSystem(s) ==
  LET c == Construct([ids |-> Ids, componentSignature |-> {},
                      thrown |-> FALSE], Requires(s))
  IN /\ status = "running"
     /\ Called
     /\ nextId' = c.ids.next
     /\ compId' = c.ids.id
     /\ IF c.thrown
          THEN status' = "thrown" /\ UNCHANGED systems
          ELSE /\ status' = "running"
               /\ systems' =
                    IF systems[s].live
                      THEN systems
                      ELSE [systems EXCEPT
                              ![s] = [live |-> TRUE,
                                      componentSignature |->
                                        c.componentSignature,
                                      entities |-> <<>>]]
     /\ UNCHANGED <<numEntities, entitiesToBeAdded, entitiesToBeKilled,
                    componentPools, entityComponentSignatures>>

\* Registry::RemoveSystem<S>(): find, then erase(iterator); erasing the end
\* iterator (no such system) is undefined behaviour.
RemoveSystem(s) ==
  /\ status = "running"
  /\ Called
  /\ IF systems[s].live
       THEN /\ systems' = [systems EXCEPT ![s] = NoSystem]
            /\ status' = "running"
       ELSE /\ status' \in {"crashed", "running"}
            /\ UNCHANGED systems
  /\ UNCHANGED <<nextId, compId, numEntities, entitiesToBeAdded,
                 entitiesToBeKilled, componentPools,
                 entityComponentSignatures>>

\* Registry::GetSystem<S>(): find, then dereference; no test against end().
GetSystemOutcomes(s) ==
  IF systems[s].live THEN {[kind |-> "system", system |-> s]} ELSE Undefined

GetSystem(s) ==
  /\ status = "running"
  /\ Called
  /\ \E out \in GetSystemOutcomes(s) :
       status' = IF out.kind = "crash" THEN "crashed" ELSE "running"
  /\ UNCHANGED <<nextId, compId, numEntities, entitiesToBeAdded,
                 entitiesToBeKilled, componentPools,
                 entityComponentSignatures, systems>>

\* ------------------------------------------------------------ specification

\* The registry as constructed, before any component kind has an id.
InitFresh ==
  /\ nextId = 0
  /\ otherIds = 0
  /\ compId = [T \in Kinds |-> NoId]
  /\ numEntities = 0
  /\ entitiesToBeAdded = {}
  /\ entitiesToBeKilled = {}
  /\ componentPools = <<>>
  /\ entityComponentSignatures = <<>>
  /\ systems = [s \in SysKinds |-> NoSystem]
  /\ steps = 0
  /\ lastFlush = NoFlush
  /\ status = "running"

\* The registry after PoolDefaultSize - 1 CreateEntity calls and an Update
\* with no system registered: the next ids reach the end of a fresh pool.
InitGrown ==
  /\ nextId = 0
  /\ otherIds = 0
  /\ compId = [T \in Kinds |-> NoId]
  /\ numEntities = PoolDefaultSize - 1
  /\ entitiesToBeAdded = {}
  /\ entitiesToBeKilled = {}
  /\ componentPools = <<>>
  /\ entityComponentSignatures = [i \in 1..(PoolDefaultSize - 1) |-> {}]
  /\ systems = [s \in SysKinds |-> NoSystem]
  /\ steps = 0
  /\ lastFlush = NoFlush
  /\ status = "running"

\* The registry as constructed in a process whose other component types
\* have already received the ids 0..MAX_COMPONENTS - 2 from GetId.
InitNearFull ==
  /\ nextId = MAX_COMPONENTS - 1
  /\ otherIds = MAX_COMPONENTS - 1
  /\ compId = [T \in Kinds |-> NoId]
  /\ numEntities = 0
  /\ entitiesToBeAdded = {}
  /\ entitiesToBeKilled = {}
  /\ componentPools = <<>>
  /\ entityComponentSignatures = <<>>
  /\ systems = [s \in SysKinds |-> NoSystem]
  /\ steps = 0
  /\ lastFlush = NoFlush
  /\ status = "running"

Init == InitFresh

Next ==
  \/ \E s \in SysKinds : GetSystem(s)
  \/ \E e \in EntityIds, T \in Kinds : GetComponent(e, T)
  \/ CreateEntity
  \/ \E e \in EntityIds, T \in Kinds, v \in Values : AddComponent(e, T, v)
  \/ \E e \in EntityIds, T \in Kinds : RemoveComponent(e, T)
  \/ \E s \in SysKinds : AddSystem(s)
  \/ \E s \in SysKinds : RemoveSystem(s)
  \/ \E e \in EntityIds : AddEntityToSystems(e)
  \/ \E e \in EntityIds : KillEntity(e)
  \/ Update

Spec == Init /\ [][Next]_vars

\* The same calls on a registry that already holds PoolDefaultSize - 1
\* entities: the entities it creates have ids below, at and beyond the size
\* of a fresh pool.
SpecGrown == InitGrown /\ [][Next]_vars

\* The same calls in a process whose id counter is one short of
\* MAX_COMPONENTS, or in a fresh one.
SpecNearFull == (InitFresh \/ InitNearFull) /\ [][Next]_vars

\* The calls through which entities reach the systems in batches only:
\* no direct AddEntityToSystems, no kill.
NextBatched ==
  \/ CreateEntity
  \/ Update
  \/ \E e \in EntityIds, T \in Kinds, v \in Values : AddComponent(e, T, v)
  \/ \E e \in EntityIds, T \in Kinds : RemoveComponent(e, T)
  \/ \E s \in SysKinds : AddSystem(s)

SpecBatched == InitFresh /\ [][NextBatched]_vars

\* ------------------------------------------------------------------ helpers

\* The entities a system holds, as a set.
Members(s) == Range(GetSystemEntities(systems[s]))

\* The bits a system of kind s requires: the ids of the kinds it declares.
RequiredIds(s) == {compId[T] : T \in Range(Requires(s))}

\* The slot of entity e in the pool of kind T, when that pool has one.
HasSlot(e, T) ==
  /\ compId[T] # NoId
  /\ compId[T] < Len(componentPools)
  /\ componentPools[compId[T] + 1].live
  /\ e < PoolGetSize(componentPools[compId[T] + 1])

Slot(e, T) == PoolGet(componentPools[compId[T] + 1], e)

\* The entities the system of kind s held when the latest Update began.
MembersFound(s) ==
  IF lastFlush.done /\ lastFlush.systems[s].live
    THEN Range(GetSystemEntities(lastFlush.systems[s]))
    ELSE {}

\* ------------------------------------------------------------------- claims

\* The calls C1 names: CreateEntity, AddComponent, RemoveComponent and the
\* queuing of a kill.
DeferredCall ==
  \/ CreateEntity
  \/ \E e \in EntityIds : KillEntity(e)
  \/ \E e \in EntityIds, T \in Kinds, v \in Values : AddComponent(e, T, v)
  \/ \E e \in EntityIds, T \in Kinds : RemoveComponent(e, T)

C2_MembersMatchAtUpdate ==
  [][Update =>
       \A s \in SysKinds :
         HasSystem(s)' =>
           \A e \in Range(GetSystemEntities(systems'[s])) :
             Matches(entityComponentSignatures[e + 1],
                     GetComponentSignature(systems'[s]))]_vars

\* C3 (as claimed): when Update returns, every entity that was in
\* entitiesToBeAdded is a member of exactly the registered systems whose
\* required signature is a subset of the entity's signature.
C3_FlushedIntoExactlyMatching ==
  [][Update =>
       \A s \in SysKinds, e \in entitiesToBeAdded :
         HasSystem(s) =>
           (e \in Members(s)' <=>
              Matches(entityComponentSignatures[e + 1], RequiredIds(s)))]_vars

\* C3 (amended): when Update returns, every entity that was in
\* entitiesToBeAdded and not in entitiesToBeKilled is a member of every
\* registered system whose required signature is a subset of its signature,
\* and an entity that was in entitiesToBeAdded is a member of a system whose
\* required signature is not a subset only if it was one before the call.
\* Hence an Update that finds every entity pending, no kill queued and the
\* system's list empty leaves in it exactly the entities whose signature
\* contains the required one.
C3_FlushedIntoMatching ==
  [][Update =>
       \A s \in SysKinds :
         HasSystem(s) =>
           /\ \A e \in entitiesToBeAdded \ entitiesToBeKilled :
                Matches(entityComponentSignatures[e + 1], RequiredIds(s))
                  => e \in Members(s)'
           /\ \A e \in entitiesToBeAdded :
                ~Matches(entityComponentSignatures[e + 1], RequiredIds(s))
                  => (e \in Members(s)' => e \in Members(s))
           /\ ( /\ entitiesToBeAdded = EntityIds
                /\ entitiesToBeKilled = {}
                /\ Members(s) = {} )
                => Members(s)' =
                     {e \in EntityIds :
                        Matches(entityComponentSignatures[e + 1],
                                RequiredIds(s))}]_vars

\* C3 witness: after an Update both systems are registered, nothing is
\* pending, one entity is in the first system and not in the second, and
\* another entity is in neither.
C3_Witness ==
  \E e1 \in EntityIds, e2 \in EntityIds :
    /\ entitiesToBeAdded = {}
    /\ HasSystem(1) /\ HasSystem(2)
    /\ e1 \in Members(1) /\ e1 \notin Members(2)
    /\ e2 \notin Members(1) /\ e2 \notin Members(2)
    /\ Matches(entityComponentSignatures[e1 + 1], RequiredIds(1))
    /\ ~Matches(entityComponentSignatures[e1 + 1], RequiredIds(2))

\* C4: an AddComponent<T>(e, v) call that returns leaves HasComponent<T>(e)
\* true, and the GetComponent<T>(e) that follows it has one outcome: the
\* component made from v -- whether or not e had a T, whether or not the
\* pool of T existed, and for ids at or beyond a fresh pool's size.
C4_AddThenGet ==
  [][\A e \in EntityIds, T \in Kinds, v \in Values :
       (AddComponent(e, T, v) /\ status' = "running") =>
         /\ HasComponent(e, T)'
         /\ GetComponentOutcomes(e, T)' =
              {[kind |-> "component", value |-> v]}]_vars

\* C4 witness: an entity whose id is at or beyond PoolDefaultSize has a
\* component whose pool was grown for it, and an entity below that size has
\* one in the same pool.
C4_Witness ==
  \E e1 \in EntityIds, e2 \in EntityIds, T \in Kinds :
    /\ e1 < PoolDefaultSize /\ e2 >= PoolDefaultSize
    /\ HasComponent(e1, T) /\ HasComponent(e2, T)
    /\ HasSlot(e1, T) /\ HasSlot(e2, T)
    /\ Slot(e1, T) \in Values /\ Slot(e2, T) \in Values
    /\ Slot(e1, T) # Slot(e2, T)

\* C5: a RemoveComponent<T>(e) call that returns leaves HasComponent<T>(e)
\* false, HasComponent<U>(e) as it was for every other kind U, and the
\* signature of every other entity as it was.
C5_RemoveOnlyThatBit ==
  [][\A e \in EntityIds, T \in Kinds :
       (RemoveComponent(e, T) /\ status' = "running") =>
         /\ ~HasComponent(e, T)'
         /\ \A U \in Kinds \ {T} : HasComponent(e, U)' <=> HasComponent(e, U)
         /\ \A o \in EntityIds \ {e} :
              entityComponentSignatures'[o + 1] =
                entityComponentSignatures[o + 1]]_vars

\* C5 witness: an entity lacks a kind whose pool slot still holds the value
\* once added for it (the kind was added, then removed), has another kind,
\* and another entity has the removed kind.
C5_Witness ==
  \E e \in EntityIds, o \in EntityIds, T \in Kinds, U \in Kinds :
    /\ o # e /\ U # T
    /\ ~HasComponent(e, T)
    /\ HasSlot(e, T) /\ Slot(e, T) \in Values
    /\ HasComponent(e, U)
    /\ HasComponent(o, T)

\* C6: the entity CreateEntity returns has no component of any kind, and
\* HasComponent<T>(e) turns true only in an AddComponent<T> call on e.
C6_NoComponentUntilAdded ==
  [][/\ CreateEntity =>
          \A created \in {numEntities}, T \in Kinds :
            ~HasComponent(created, T)'
     /\ \A e \in EntityIds, T \in Kinds :
          (~HasComponent(e, T) /\ HasComponent(e, T)') =>
            \E v \in Values : AddComponent(e, T, v)]_vars

\* C6 witness: an entity created after an older one received both kinds
\* still has none, although one of the older entity's kinds was removed
\* again.
C6_Witness ==
  \E e \in EntityIds, o \in EntityIds, T \in Kinds, U \in Kinds :
    /\ o < e /\ T # U
    /\ HasComponent(o, T)
    /\ ~HasComponent(o, U) /\ HasSlot(o, U) /\ Slot(o, U) \in Values
    /\ \A K \in Kinds : ~HasComponent(e, K) /\ compId[K] # NoId

\* The kinds that have received an id.
Assigned == {T \in Kinds : compId[T] # NoId}

\* C7: the ids handed out are 0, 1, 2, ... in the order of the kinds' first
\* GetId calls: in every state the kinds that have an id hold, after the m
\* ids of the process's other kinds, exactly the ids m..n-1, n being the
\* number of kinds with an id and the value of the counter; a kind that has
\* an id keeps it in every later call; a kind that receives one receives the
\* counter's value or more; and the kinds a system's constructor is the
\* first to ask for receive increasing ids in the order it declares them.
C7_IdsDenseStableOrdered ==
  /\ [](/\ nextId = otherIds + Cardinality(Assigned)
        /\ {compId[T] : T \in Assigned} = otherIds..(nextId - 1))
  /\ [][/\ \A T \in Assigned : compId'[T] = compId[T]
        /\ \A T \in Kinds \ Assigned : compId'[T] # NoId => compId'[T] >= nextId
        /\ \A s \in SysKinds :
             AddSystem(s) =>
               \A i \in DOMAIN Requires(s), j \in DOMAIN Requires(s) :
                 ( /\ i < j
                   /\ Requires(s)[i] \notin Assigned
                   /\ Requires(s)[j] \notin Assigned )
                   => compId'[Requires(s)[i]] < compId'[Requires(s)[j]]]_vars

\* C7 witness: the second kind was asked for first and the first kind after
\* it, and calls for both were made again since (an entity holds both, a
\* system requiring both is registered).
C7_Witness ==
  \E e \in EntityIds :
    /\ compId[2] # NoId /\ compId[1] # NoId
    /\ compId[2] < compId[1]
    /\ HasComponent(e, 1) /\ HasComponent(e, 2)
    /\ HasSystem(2)

\* C8 (as claimed): every id handed out is below MAX_COMPONENTS.
C8_IdsBelowMax == \A T \in Kinds : compId[T] < MAX_COMPONENTS

\* C9 (as claimed): a GetComponent<T>(e) call made while HasComponent<T>(e)
\* is false ends in the failed state; it returns nothing.
C9_GetAbsentComponentFails ==
  [][\A e \in EntityIds, T \in Kinds :
       (GetComponent(e, T) /\ ~HasComponent(e, T)) => status' = "crashed"]_vars

\* C10 (as claimed): a GetSystem<S>() call made while no system of kind S is
\* registered ends in the failed state; it returns nothing.
C10_GetAbsentSystemFails ==
  [][\A s \in SysKinds :
       (GetSystem(s) /\ ~HasSystem(s)) => status' = "crashed"]_vars

\* C11: an Update that finds entity e queued for kill leaves e in no
\* system; an entity that has left entitiesToBeAdded never enters it again;
\* and an entity that is not pending becomes a member of a system only in an
\* AddEntityToSystems call for it -- so a member that is killed is in no
\* system after the next Update and after every later one, until
\* AddEntityToSystems is called for it.
C11_KilledStaysOut ==
  [][\A e \in EntityIds :
       /\ (Update /\ e \in entitiesToBeKilled) =>
             \A s \in SysKinds : e \notin Members(s)'
       /\ e \notin entitiesToBeAdded => e \notin entitiesToBeAdded'
       /\ \A s \in SysKinds :
            ( /\ e \notin entitiesToBeAdded
              /\ e \notin Members(s)
              /\ e \in Members(s)' ) => AddEntityToSystems(e)]_vars

\* C11 witness: the latest Update found an entity that was not pending, was
\* a member of a system and was queued for kill; the system is still
\* registered, the entity's signature still contains the required one, and
\* the entity is a member of no system.
C11_Witness ==
  \E e \in EntityIds, s \in SysKinds :
    /\ lastFlush.done
    /\ e \in lastFlush.killed \ lastFlush.added
    /\ e \in MembersFound(s)
    /\ HasSystem(s)
    /\ Matches(entityComponentSignatures[e + 1], RequiredIds(s))
    /\ \A t \in SysKinds : e \notin Members(t)

\* C12 (as claimed): a call of the public interface other than Update
\* leaves the entity list of every system that stays registered unchanged.
C12_OnlyUpdateChangesMembership ==
  [][~Update =>
       \A s \in SysKinds :
         (HasSystem(s) /\ HasSystem(s)') =>
           GetSystemEntities(systems'[s]) = GetSystemEntities(systems[s])]_vars

C14_IdleUpdateChangesNothing ==
  [][Update =>
       /\ entitiesToBeAdded' = {}
       /\ entitiesToBeKilled' = {}
       /\ (entitiesToBeAdded = {} /\ entitiesToBeKilled = {}) =>
            UNCHANGED <<nextId, compId, numEntities, entitiesToBeAdded,
                        entitiesToBeKilled, componentPools,
                        entityComponentSignatures, systems, status>>]_vars

\* C14 witness: the latest Update found both queues empty and a registered
\* system whose requirement an entity outside it satisfied; the queues are
\* empty and the entity is still outside the system.
C14_Witness ==
  \E o \in EntityIds, s \in SysKinds :
    /\ lastFlush.done
    /\ lastFlush.added = {} /\ lastFlush.killed = {}
    /\ lastFlush.systems[s].live
    /\ o + 1 \in DOMAIN lastFlush.signatures
    /\ Matches(lastFlush.signatures[o + 1],
               GetComponentSignature(lastFlush.systems[s]))
    /\ o \notin MembersFound(s)
    /\ entitiesToBeAdded = {} /\ entitiesToBeKilled = {}
    /\ HasSystem(s) /\ o \notin Members(s)

\* C15: an AddSystem<S> call that returns leaves S registered, leaves the
\* instance of S untouched (signature and entity list) when S was
\* registered already, and touches no other kind; a RemoveSystem<S> call
\* that returns leaves S unregistered and touches no other kind; and
\* HasSystem<S>() changes in no other call.
C15_OneInstancePerKind ==
  [][\A s \in SysKinds :
       /\ (AddSystem(s) /\ status' = "running") =>
            /\ HasSystem(s)'
            /\ HasSystem(s) => systems'[s] = systems[s]
            /\ \A t \in SysKinds \ {s} : systems'[t] = systems[t]
       /\ (RemoveSystem(s) /\ status' = "running") =>
            /\ ~HasSystem(s)'
            /\ \A t \in SysKinds \ {s} : systems'[t] = systems[t]
       /\ (HasSystem(s)' # HasSystem(s)) =>
            (AddSystem(s) \/ RemoveSystem(s))]_vars

\* C15 witness: no entity exists, the first component kind holds id 0 and
\* the second id 1 -- which only the constructor of the first system kind
\* assigns in that order -- the first system kind is not registered (it was
\* added, then removed) and the second is.
C15_Witness ==
  /\ numEntities = 0
  /\ compId[1] = 0 /\ compId[2] = 1
  /\ ~HasSystem(1)
  /\ HasSystem(2)

\* C16: no call makes a component pool disappear or shrink; every
\* AddComponent<T>(e) call leaves a pool of T that has a slot for e, holding
\* the value written; and in every state each component an entity has lies
\* in a slot of its pool, so that reading it stays within the pool.
C16_PoolsGrowAndHoldWrites ==
  /\ [](\A e \in EntityIds, T \in Kinds :
          HasComponent(e, T) =>
            /\ HasSlot(e, T)
            /\ GetComponentOutcomes(e, T) \cap Undefined = {})
  /\ [][/\ \A p \in DOMAIN componentPools :
             /\ p \in DOMAIN componentPools'
             /\ componentPools[p].live =>
                  /\ componentPools'[p].live
                  /\ PoolGetSize(componentPools'[p]) >=
                       PoolGetSize(componentPools[p])
        /\ \A e \in EntityIds, T \in Kinds, v \in Values :
             AddComponent(e, T, v) =>
               (HasSlot(e, T)' /\ Slot(e, T)' = v)]_vars

\* C16 witness: one pool has been grown beyond PoolDefaultSize for an
\* entity whose id is at or beyond that size and holds that entity's
\* component, while another pool, written only for an entity below that
\* size, still has PoolDefaultSize slots.
C16_Witness ==
  \E e1 \in EntityIds, e2 \in EntityIds, T \in Kinds, U \in Kinds :
    /\ T # U
    /\ e1 < PoolDefaultSize /\ e2 >= PoolDefaultSize
    /\ HasComponent(e2, T) /\ HasSlot(e2, T) /\ Slot(e2, T) \in Values
    /\ PoolGetSize(componentPools[compId[T] + 1]) > PoolDefaultSize
    /\ HasComponent(e1, U) /\ HasSlot(e1, U) /\ Slot(e1, U) \in Values
    /\ PoolGetSize(componentPools[compId[U] + 1]) = PoolDefaultSize

\* C17: when Update returns, an entity that was both in entitiesToBeAdded
\* and in entitiesToBeKilled is a member of no system, and both sets are
\* empty.
C17_AddedThenKilledInOneUpdate ==
  [][Update =>
       /\ \A e \in entitiesToBeAdded \cap entitiesToBeKilled :
            \A s \in SysKinds : e \notin Members(s)'
       /\ entitiesToBeAdded' = {} /\ entitiesToBeKilled' = {}]_vars

\* C17 witness: the latest Update found an entity in both sets and a
\* registered system whose requirement the entity satisfied; that system is
\* still registered, the entity is in no system and both sets are empty.
C17_Witness ==
  \E e \in EntityIds, s \in SysKinds :
    /\ lastFlush.done
    /\ e \in lastFlush.added \cap lastFlush.killed
    /\ lastFlush.systems[s].live
    /\ Matches(lastFlush.signatures[e + 1],
               GetComponentSignature(lastFlush.systems[s]))
    /\ HasSystem(s)
    /\ \A t \in SysKinds : e \notin Members(t)
    /\ entitiesToBeAdded = {} /\ entitiesToBeKilled = {}

\* The ids CreateEntity has handed out.
Created == 0..(numEntities - 1)

\* C18: CreateEntity returns the entity count and raises it by one, so the
\* ids are 0, 1, 2, ... in call order; the id it returns is new (it is no
\* id handed out before: not pending, not queued for kill, not killed by
\* the latest Update, in no system); the id enters entitiesToBeAdded in
\* that call and an id enters it in no other way; the entity count changes
\* in no other call; and in every state the signature vector has a slot for
\* every id below the entity count, and every id a queue or a system holds
\* is below the entity count.
C18_EntityIdsSequential ==
  /\ [](/\ Len(entityComponentSignatures) >= numEntities
        /\ entitiesToBeAdded \subseteq Created
        /\ entitiesToBeKilled \subseteq Created
        /\ lastFlush.added \cup lastFlush.killed \subseteq Created
        /\ \A s \in SysKinds : Members(s) \subseteq Created)
  /\ [][/\ CreateEntity =>
             /\ numEntities' = numEntities + 1
             /\ numEntities \notin Created
             /\ entitiesToBeAdded' = entitiesToBeAdded \cup {numEntities}
        /\ numEntities' # numEntities => CreateEntity
        /\ entitiesToBeAdded' \ entitiesToBeAdded # {} =>
             /\ CreateEntity
             /\ entitiesToBeAdded' \ entitiesToBeAdded = {numEntities}]_vars

\* C18 witness: the latest Update killed an entity, and an entity created
\* since then is pending under a higher id.
C18_Witness ==
  \E e \in EntityIds, o \in EntityIds :
    /\ lastFlush.done
    /\ o \in lastFlush.killed
    /\ e \in entitiesToBeAdded
    /\ e > o
    /\ e = numEntities - 1

\* C19: an AddComponent<T>(e, v) call leaves every other pool as it was
\* (a slot of componentPools it adds for another id is an empty pointer),
\* leaves every slot of T's pool other than e's as it was, leaves the
\* signature of every other entity as it was and changes no bit of e's
\* signature other than the bit of T -- whether it creates the pool, grows
\* it or neither; a RemoveComponent call leaves componentPools as it was.
C19_AddWritesOneSlotOneBit ==
  [][/\ \A e \in EntityIds, T \in Kinds, v \in Values :
          AddComponent(e, T, v) =>
            \A id \in {compId'[T]} :
              /\ \A p \in DOMAIN componentPools' :
                   p # id + 1 =>
                     componentPools'[p] =
                       IF p \in DOMAIN componentPools
                         THEN componentPools[p]
                         ELSE NullPool
              /\ (id + 1 \in DOMAIN componentPools
                    /\ componentPools[id + 1].live) =>
                   \A i \in DOMAIN componentPools[id + 1].data :
                     i # e + 1 =>
                       componentPools'[id + 1].data[i] =
                         componentPools[id + 1].data[i]
              /\ \A i \in DOMAIN entityComponentSignatures :
                   i # e + 1 =>
                     entityComponentSignatures'[i] =
                       entityComponentSignatures[i]
              /\ entityComponentSignatures'[e + 1] \ {id} =
                   entityComponentSignatures[e + 1] \ {id}
     /\ \A e \in EntityIds, T \in Kinds :
          RemoveComponent(e, T) => componentPools' = componentPools]_vars

\* C19 witness: the pool of a kind has been grown beyond PoolDefaultSize;
\* in it an entity below that size holds one value, and an entity at or
\* beyond that size, which no longer has the kind, still has another value
\* in its slot.
C19_Witness ==
  \E e1 \in EntityIds, e2 \in EntityIds, T \in Kinds :
    /\ e1 < PoolDefaultSize /\ e2 >= PoolDefaultSize
    /\ HasSlot(e1, T) /\ HasSlot(e2, T)
    /\ PoolGetSize(componentPools[compId[T] + 1]) > PoolDefaultSize
    /\ HasComponent(e1, T) /\ Slot(e1, T) \in Values
    /\ ~HasComponent(e2, T) /\ Slot(e2, T) \in Values
    /\ Slot(e1, T) # Slot(e2, T)

\* C20: an Update makes no entity a member that was not in
\* entitiesToBeAdded, whatever its signature contains; AddComponent
\* changes neither a system nor entitiesToBeAdded; an AddSystem call that
\* registers a system registers it with an empty entity list and leaves
\* entitiesToBeAdded as it was; and an entity that is not pending becomes a
\* member of a system only in an AddEntityToSystems call for it.
C20_MembershipDecidedAtFlush ==
  [][/\ Update =>
          \A e \in EntityIds \ entitiesToBeAdded, s \in SysKinds :
            e \in Members(s)' => e \in Members(s)
     /\ \A e \in EntityIds, T \in Kinds, v \in Values :
          AddComponent(e, T, v) =>
            UNCHANGED <<systems, entitiesToBeAdded>>
     /\ \A s \in SysKinds :
          (AddSystem(s) /\ ~HasSystem(s) /\ HasSystem(s)') =>
            /\ GetSystemEntities(systems'[s]) = <<>>
            /\ UNCHANGED entitiesToBeAdded
     /\ \A e \in EntityIds \ entitiesToBeAdded, s \in SysKinds :
          (e \notin Members(s) /\ e \in Members(s)') =>
            AddEntityToSystems(e)]_vars

\* C20 witness: the latest Update flushed some entity, and found another
\* entity that was not pending (an earlier Update had flushed it) outside a
\* registered system whose requirement its signature satisfied; that entity
\* is still outside the system.
C20_Witness ==
  \E e \in EntityIds, s \in SysKinds :
    /\ lastFlush.done
    /\ lastFlush.added # {}
    /\ e + 1 \in DOMAIN lastFlush.signatures
    /\ e \notin lastFlush.added \cup lastFlush.killed
    /\ lastFlush.systems[s].live
    /\ Matches(lastFlush.signatures[e + 1],
               GetComponentSignature(lastFlush.systems[s]))
    /\ e \notin MembersFound(s)
    /\ HasSystem(s)
    /\ e \notin Members(s)

====
